---- MODULE Spec2Model ----
(***************************************************************************)
(* Model of the live telemetry bridge of backend/ros2_graph_server.py:     *)
(* the subscription manager of ROS2GraphService (subscription table,       *)
(* latest-message cache, manager lock), the bus delivery thread that runs  *)
(* the message-arrival callbacks, and the per-viewer streaming sessions of *)
(* the /ws/topic endpoint.                                                 *)
(***************************************************************************)
EXTENDS Integers, Sequences, FiniteSets, TLC

(* ------------------------------ bounds --------------------------------- *)
NumSessions == 2          \* viewer streaming sessions (one connection each)
MaxTicks == 2             \* clock readings after the first one
TickStep == 3             \* seconds between two clock readings
MaxPubs == 3              \* publishers observed on one topic
MaxWarnings == 2          \* 'warning' frames counted per session
NumClients == 2           \* viewers of /ws/graph
MaxSide == 2              \* declared width and height of a point cloud
MaxStep == 2              \* point_step of a point cloud, in bytes
MaxBytes == 4             \* payload of a point cloud, in bytes
MaxRanges == 3            \* ranges of a laser scan
MaxCap == 2               \* the small values of max_points
MaxLen == 2               \* length of the short sequences converted
MaxWords == 2             \* words of a format label
MaxNamespace == 4         \* characters of a namespace
MaxName == 2              \* characters of a node name

(* ------------------------- program constants --------------------------- *)
GRACE_PERIOD == 5         \* seconds of silence before the warning
MAX_POINTS == 150000      \* default of max_points
SEQUENCE_LIMIT == 200     \* elements of a list or tuple emitted
BINARY_LIMIT == 256       \* elements of bytes, array, ndarray emitted

Sessions == 1..NumSessions
Topics == {"/a", "/b"}
RawPaths == {"a", "/a", "/b"}
StartTime == 1
MaxTime == StartTime + MaxTicks * TickStep

GoodType == "std_msgs/msg/Int32"
BadType == "unknown_msgs/msg/Nope"
NoType == "None"
NoOwner == 0

Clients == 1..NumClients
Graphs == {"g1", "g2"}    \* the values get_graph_data can return
NoGraph == "None"
EmptyDict == [k \in {} |-> 0]

RELIABLE == "RELIABLE"
BEST_EFFORT == "BEST_EFFORT"
VOLATILE == "VOLATILE"
TRANSIENT_LOCAL == "TRANSIENT_LOCAL"
Reliabilities == {RELIABLE, BEST_EFFORT}
Durabilities == {VOLATILE, TRANSIENT_LOCAL}
PubQos == [reliability : Reliabilities, durability : Durabilities]

\* the publisher lists get_publishers_info_by_topic can return
PubLists == UNION {[1..n -> PubQos] : n \in 0..MaxPubs}

\* what get_topic_names_and_types reports about one topic name
ListingOutcomes ==
  { [listed |-> FALSE, types |-> <<>>],
    [listed |-> TRUE, types |-> <<>>],
    [listed |-> TRUE, types |-> <<GoodType>>],
    [listed |-> TRUE, types |-> <<BadType>>] }

VARIABLES
  topic_subscriptions,   \* dict: topic name -> handle id
  latest_messages,       \* dict: topic name -> [data, timestamp]
  subscription_lock,     \* NoOwner or the session inside subscribe_to_topic
  handles,               \* bus side: every subscription handle ever opened
  now,                   \* time.time()
  shutdown_event,
  session,               \* per viewer: the locals of one ws_topic call
  spin,                  \* the bus delivery thread and its current callback
  pub_info_list, query_fails, qos,  \* one run of _detect_topic_qos
  ws_clients,            \* list of the registered /ws/graph channels
  last_graph_data,       \* the snapshot of the last push round, or None
  graph_data,            \* bus side: what get_graph_data returns now
  gloop,                 \* the locals of graph_update_loop
  client,                \* per /ws/graph viewer: one ws_graph call
  sensor_msg, max_points, pc_data,  \* one run of _extract_*_data
  field_value, json_value,          \* one run of _value_to_json_safe
  image_msg, image_dict,            \* one run of _message_to_dict on an image
  namespace, node_name, full_node_name  \* one full name built from the bus

vars == <<topic_subscriptions, latest_messages, subscription_lock, handles,
          now, shutdown_event, session, spin, pub_info_list, query_fails, qos,
          ws_clients, last_graph_data, graph_data, gloop, client,
          sensor_msg, max_points, pc_data, field_value, json_value,
          image_msg, image_dict, namespace, node_name, full_node_name>>

qosVars == <<pub_info_list, query_fails, qos>>
graphVars == <<ws_clients, last_graph_data, graph_data, gloop, client>>
sensorVars == <<sensor_msg, max_points, pc_data>>
jsonVars == <<field_value, json_value>>
imageVars == <<image_msg, image_dict>>
nameVars == <<namespace, node_name, full_node_name>>
pureVars == <<sensorVars, jsonVars, imageVars, nameVars>>

(* ------------------------ dictionaries --------------------------------- *)
DictSet(d, k, v) == [x \in DOMAIN d \cup {k} |-> IF x = k THEN v ELSE d[x]]
DictDel(d, k) == [x \in DOMAIN d \ {k} |-> d[x]]

\* the manager's state as one value: what subscribe/unsubscribe/reset work on
Manager == [topic_subscriptions |-> topic_subscriptions,
            latest_messages |-> latest_messages,
            handles |-> handles]

(* --------------------- the bus (external contract) --------------------- *)
\* get_message(topic_type): raises for a type the bus does not know
Resolves(topic_type) == topic_type = GoodType

\* create_subscription: a new open handle, appended to the bus's handles
CreateSubscription(hs, topic_name, qos_profile) ==
  Append(hs, [topic |-> topic_name,
              reliability |-> qos_profile.reliability,
              durability |-> qos_profile.durability,
              state |-> "open"])

\* destroy_subscription: the node drops the handle, which delivers nothing
\* from then on; ok = FALSE: the call raises while doing so ("broken")
ClosedHandle(ok) ==
  [topic |-> "", reliability |-> "", durability |-> "",
   state |-> IF ok THEN "closed" ELSE "broken"]
DestroySubscription(hs, h, ok) == [hs EXCEPT ![h] = ClosedHandle(ok)]

OpenHandles(hs, t) == {h \in DOMAIN hs : hs[h].topic = t /\ hs[h].state = "open"}

(* ------------------------- _detect_topic_qos --------------------------- *)
\* (variant: the profile starts as persisted)
DefaultQosPersisted == [reliability |-> RELIABLE, durability |-> TRANSIENT_LOCAL]

DefaultQos == [reliability |-> RELIABLE, durability |-> VOLATILE]
NoQos == [reliability |-> "unset", durability |-> "unset"]

\* (variant: the reliability of the last publisher wins)
QosStepLastWins(q, pub_qos) ==
  [reliability |-> pub_qos.reliability, durability |-> VOLATILE]

\* one iteration of `for pub_info in pub_info_list`
QosStep(q, pub_qos) ==
  LET r == IF pub_qos.reliability = BEST_EFFORT
             THEN [q EXCEPT !.reliability = BEST_EFFORT] ELSE q
  IN IF pub_qos.durability = VOLATILE
       THEN [r EXCEPT !.durability = VOLATILE] ELSE r

RECURSIVE QosLoop(_, _, _)
QosLoop(q, pubs, i) ==
  IF i > Len(pubs) THEN q ELSE QosLoop(QosStep(q, pubs[i]), pubs, i + 1)

\* fails: get_publishers_info_by_topic raised, the defaults are returned
DetectTopicQos(pubs, fails) ==
  IF fails THEN DefaultQos ELSE QosLoop(DefaultQos, pubs, 1)

(* --------------------------- the transcoder ---------------------------- *)
\* a Python value by its type: v and n hold a scalar (a float is named by
\* its str()), items the elements of a container or the (name, value) fields
\* of a message
Value(type, v, n, items) == [type |-> type, v |-> v, n |-> n, items |-> items]
IntValue(n) == Value("int", "", n, <<>>)
FloatValue(v) == Value("float", v, 0, <<>>)

\* a JSON value: number, string, list, dict (items: (name, value) pairs)
Json(kind, v, n, items) == [json |-> kind, v |-> v, n |-> n, items |-> items]
Number(v, n) == Json("number", v, n, <<>>)
String(v, n) == Json("string", v, n, <<>>)

Floats == {"1.5", "inf", "-inf", "nan"}

\* math.isinf(value) or math.isnan(value)
IsNonFinite(v) == v \in {"inf", "-inf", "nan"}

\* list(value), value.tolist(): the elements as Python numbers
AsList(items) ==
  [k \in DOMAIN items |-> Number(items[k].v, items[k].n)]

\* `if len(value) > 200`: the number of elements of a list or tuple that
\* are emitted
Kept(len) == IF len > SEQUENCE_LIMIT THEN SEQUENCE_LIMIT ELSE len

\* _value_to_json_safe, and _message_to_dict in its generic branch: the
\* ordered (field name, JSON-safe value) pairs of a message
RECURSIVE ValueToJsonSafe(_)
RECURSIVE MessageToDict(_)
ValueToJsonSafe(value) ==
  LET len == Len(value.items)
  IN CASE value.type = "msg" ->
            Json("dict", "", 0, MessageToDict(value.items))
       [] value.type \in {"bytes", "bytearray"} ->
            IF len > BINARY_LIMIT THEN String("<binary: n bytes>", len)
            ELSE Json("list", "", 0, AsList(value.items))
       [] value.type = "array" ->
            IF len > BINARY_LIMIT THEN String("<array[n]>", len)
            ELSE Json("list", "", 0, AsList(value.items))
       [] value.type \in {"list", "tuple"} ->
            LET items == [k \in 1..Kept(len) |-> ValueToJsonSafe(value.items[k])]
            IN Json("list", "", 0,
                    IF Kept(len) < len
                      THEN Append(items, String("... (n more items)",
                                                len - SEQUENCE_LIMIT))
                      ELSE items)
       [] value.type = "float" ->
            IF IsNonFinite(value.v) THEN String(value.v, 0)
            ELSE Number(value.v, 0)
       [] value.type = "int" -> Number(value.v, value.n)
       [] value.type = "bool" -> Json("bool", value.v, 0, <<>>)
       [] value.type = "str" -> String(value.v, 0)
       [] value.type = "None" -> Json("null", "", 0, <<>>)
       [] value.type = "np.integer" -> Number(value.v, value.n)
       [] value.type = "np.floating" ->
            IF IsNonFinite(value.v) THEN String(value.v, 0)
            ELSE Number(value.v, 0)
       [] value.type = "ndarray" ->
            IF len > BINARY_LIMIT THEN String("<ndarray shape dtype>", len)
            ELSE Json("list", "", 0, AsList(value.items))
       [] OTHER -> String(value.v, value.n)

MessageToDict(msg) ==
  [k \in DOMAIN msg |-> <<msg[k][1], ValueToJsonSafe(msg[k][2])>>]

NoValue == Value("none", "", 0, <<>>)
NotConverted == Json("not run", "", 0, <<>>)

\* the values converted on their own: scalars, numeric sequences in the
\* containers the bus binding uses (short ones of every content, long ones
\* of one repeated element, around the two limits), byte strings, nested
\* messages and lists of them
Scalars ==
  {IntValue(7), Value("str", "s", 0, <<>>), Value("bool", "True", 0, <<>>),
   Value("None", "", 0, <<>>), Value("np.integer", "", 7, <<>>),
   Value("Duration", "repr", 0, <<>>)}
    \cup {FloatValue(v) : v \in Floats}
    \cup {Value("np.floating", v, 0, <<>>) : v \in Floats}
FloatElements == {FloatValue(v) : v \in Floats}
ShortSequences == UNION {[1..n -> FloatElements] : n \in 0..MaxLen}
LimitLengths ==
  {SEQUENCE_LIMIT, SEQUENCE_LIMIT + 1, BINARY_LIMIT, BINARY_LIMIT + 1}
LongSequences ==
  {[k \in 1..n |-> e] : n \in LimitLengths, e \in FloatElements}
NumericContainers == {"list", "tuple", "array", "ndarray"}
Sequences ==
  {Value(t, "", 0, items) :
     t \in NumericContainers, items \in ShortSequences \cup LongSequences}
ByteStrings ==
  {Value("bytes", "", 0, [k \in 1..n |-> IntValue(0)]) :
     n \in {0, 1, BINARY_LIMIT, BINARY_LIMIT + 1}}
Nested ==
  {Value("msg", "", 0, << <<"x", x>> >>) :
     x \in Scalars \cup {Value(t, "", 0, items) :
                            t \in NumericContainers, items \in ShortSequences}}
Values ==
  Scalars \cup Sequences \cup ByteStrings \cup Nested
    \cup {Value("list", "", 0, <<x>>) : x \in Nested}

(* --------------------------- compressed images ------------------------- *)
\* a format label is a sequence of words, as the publisher spelt them
Words == {"jpeg", "JPG", "compressedDepth", "tiff", "PNG", "png", "32FC1", "rgb8"}
Labels == UNION {[1..n -> Words] : n \in 1..MaxWords}

\* str.lower() of one word
Lower(w) ==
  CASE w = "JPG" -> "jpg"
    [] w = "compressedDepth" -> "compresseddepth"
    [] w = "PNG" -> "png"
    [] w = "32FC1" -> "32fc1"
    [] OTHER -> w

\* `fmt = msg.format.lower()`, then `marker in fmt`
Contains(format, marker) == \E k \in DOMAIN format : Lower(format[k]) = marker

\* the 12-byte config header of a compressedDepth payload
HEADER_SIZE == 12

\* a sensor_msgs/CompressedImage: its label and the length of its payload
CompressedImageMsgs ==
  [format : Labels, data_len : {0, HEADER_SIZE, HEADER_SIZE + 1}]
NoImage == [format |-> <<>>, data_len |-> 0]

\* how the decoding of a compressedDepth payload ends: a decoded image,
\* cv2.imdecode returns None, numpy/cv2 are not installed, an exception
DecodeOutcomes == {"decoded", "None", "ImportError", "Exception"}

\* the dict returned for an image: data is the payload re-exposed as it came
\* ("original"), a re-encoded rendering ("reencoded") or absent ("none")
ImageDict(msg_type, format, data, original_format, error) ==
  [msg_type |-> msg_type, format |-> format, data |-> data,
   original_format |-> original_format, error |-> error]
NotDecoded == ImageDict("not run", <<>>, "none", <<>>, FALSE)

\* the common return: the bytes as base64 with the chosen mime format
PassThrough(msg, mime_format) ==
  ImageDict("compressed_image", <<mime_format>>, "original", msg.format, FALSE)

\* the compressedDepth branch
CompressedDepthToDict(msg, decode) ==
  IF msg.data_len <= HEADER_SIZE \/ decode # "decoded"
    THEN ImageDict("image_metadata", msg.format, "none", <<>>, TRUE)
    ELSE ImageDict("compressed_image", <<"jpeg">>, "reencoded", msg.format,
                   FALSE)

\* the if/elif chain on fmt: which branch handles the label
MimeBranch(format) ==
  IF Contains(format, "jpeg") \/ Contains(format, "jpg") THEN "jpeg"
  ELSE IF Contains(format, "compresseddepth") \/ Contains(format, "tiff")
    THEN "depth"
  ELSE IF Contains(format, "png") THEN "png"
  ELSE "default"

\* _message_to_dict, CompressedImage branch
CompressedImageToDict(msg, decode) ==
  IF msg.data_len = 0
    THEN ImageDict("compressed_image", msg.format, "none", <<>>, TRUE)
  ELSE CASE MimeBranch(msg.format) = "jpeg" -> PassThrough(msg, "jpeg")
         [] MimeBranch(msg.format) = "depth" -> CompressedDepthToDict(msg, decode)
         [] MimeBranch(msg.format) = "png" -> PassThrough(msg, "png")
         [] OTHER -> PassThrough(msg, "jpeg")

(* ------------------------------ full names ----------------------------- *)
\* names are sequences of characters; `/` is the path separator
Separator == "/"
Letters == {"a", "b"}
Strings(chars, n) == UNION {[1..k -> chars] : k \in 1..n}

\* two separators in a row somewhere in the string
HasDoubled(str) ==
  \E k \in 1..(Len(str) - 1) : str[k] = Separator /\ str[k + 1] = Separator

\* the namespaces of the nodes the bus knows: `/`, or separator-led segments
AbsoluteNamespaces ==
  {ns \in Strings(Letters \cup {Separator}, MaxNamespace) :
     /\ ns[1] = Separator
     /\ ~HasDoubled(ns)
     /\ Len(ns) > 1 => ns[Len(ns)] # Separator}

\* what the endpoint info of a topic gives for a publisher or subscriber
\* whose node the bus cannot tell: placeholder texts with no separator
UnknownNamespace == <<"_">>
UnknownName == <<"_">>

\* the (namespace, name) pairs the bus reports
BusNamespaces == AbsoluteNamespaces \cup {UnknownNamespace}
BusNames == Strings(Letters, MaxName) \cup {UnknownName}

\* str.replace('//', '/'): one pass from the left over non-overlapping
\* occurrences
RECURSIVE ReplaceDoubled(_)
ReplaceDoubled(str) ==
  IF Len(str) < 2 THEN str
  ELSE IF str[1] = Separator /\ str[2] = Separator
    THEN <<Separator>> \o ReplaceDoubled(SubSeq(str, 3, Len(str)))
  ELSE <<str[1]>> \o ReplaceDoubled(Tail(str))

\* f"{namespace}{node_name}".replace('//', '/')
FullNodeName(ns, name) == ReplaceDoubled(ns \o name)

NotBuilt == <<"not built">>

\* a std_msgs/msg/Int32 message: one integer field `data`
Int32(data) == << <<"data", IntValue(data)>> >>
Msgs == {Int32(1), Int32(2)}

(* ------------------- point clouds and laser scans ---------------------- *)
Rows(data_len, point_step) ==
  IF point_step = 0 THEN 0 ELSE data_len \div point_step

\* a PointCloud2 message: fits: the fields read lie inside point_step;
\* finite: the rows of the payload whose x, y, z are all finite
CloudShapes ==
  [width : 0..MaxSide, height : 0..MaxSide, point_step : 0..MaxStep,
   data_len : 0..MaxBytes, fits : BOOLEAN]
PointCloudMsgs ==
  UNION {{[kind |-> "pointcloud2", width |-> c.width, height |-> c.height,
           point_step |-> c.point_step, data_len |-> c.data_len,
           fits |-> c.fits, finite |-> f] :
            f \in SUBSET (1..Rows(c.data_len, c.point_step))} : c \in CloudShapes}

\* a LaserScan message: each range is finite and within range_min..range_max
\* ("valid"), or not finite, or out of that interval
RangeKinds == {"valid", "nonfinite", "out_of_range"}
LaserScanMsgs ==
  {[kind |-> "laserscan", ranges |-> r] :
     r \in UNION {[1..n -> RangeKinds] : n \in 0..MaxRanges}}

NoSensorMsg == [kind |-> "none"]
Caps == (1..MaxCap) \cup {MAX_POINTS}

\* what the extraction returns: None, or the dict with num_points, positions
\* and colors (a point is named by its row in the payload, a colour by the
\* row it was computed from)
PositionOf(i) == <<"xyz", i>>
ColorOf(i) == <<"rgb", i>>
NotExtracted ==
  [status |-> "not run", num_points |-> 0, positions |-> <<>>, colors |-> <<>>]
NoneData ==
  [status |-> "None", num_points |-> 0, positions |-> <<>>, colors |-> <<>>]

\* array[mask]: the rows of the mask, in their order
RECURSIVE Masked(_)
Masked(rows) ==
  IF rows = {} THEN <<>>
  ELSE LET m == CHOOSE x \in rows : \A y \in rows : x <= y
       IN <<m>> \o Masked(rows \ {m})

\* (variant: indices drawn with replacement)
RandomChoiceWithReplacement(n, k) == [1..k -> 1..n]

\* np.random.choice(n, k, replace=False): k distinct indices below n
RandomChoice(n, k) ==
  {f \in [1..k -> 1..n] : \A i \in 1..k, j \in 1..k : i # j => f[i] # f[j]}

\* the index sequences the downsampling may draw for n valid points
Draws(n, cap) == IF n > cap THEN RandomChoice(n, cap) ELSE {<<>>}

\* `if num_points > max_points` ... to the returned dict
Emit(rows, cap, indices) ==
  LET positions == [k \in 1..Len(rows) |-> PositionOf(rows[k])]
      colors == [k \in 1..Len(rows) |-> ColorOf(rows[k])]
      num_points == Len(positions)
  IN IF num_points > cap
       THEN [status |-> "data", num_points |-> cap,
             positions |-> [k \in 1..cap |-> positions[indices[k]]],
             colors |-> [k \in 1..cap |-> colors[indices[k]]]]
       ELSE [status |-> "data", num_points |-> num_points,
             positions |-> positions, colors |-> colors]

\* (variant: the declared count is not clipped to the payload)
ClipCountDeclared(declared, actual_points) == declared

\* `if actual_points < num_points: num_points = actual_points`
ClipCount(declared, actual_points) ==
  IF actual_points < declared THEN actual_points ELSE declared

\* the rows of a point cloud that are read and pass the finite filter, or
\* the exception that ends the extraction before
CloudRows(m) ==
  LET declared == m.width * m.height
  IN IF declared = 0 THEN [ok |-> FALSE, rows |-> <<>>]
     ELSE IF m.point_step = 0 THEN [ok |-> FALSE, rows |-> <<>>]
     ELSE LET actual_points == m.data_len \div m.point_step
              num_points == ClipCount(declared, actual_points)
          IN IF num_points = 0 THEN [ok |-> FALSE, rows |-> <<>>]
             ELSE IF num_points * m.point_step > m.data_len \/ ~m.fits
               THEN [ok |-> FALSE, rows |-> <<>>]
             ELSE LET valid == {i \in 1..num_points : i \in m.finite}
                  IN [ok |-> valid # {}, rows |-> Masked(valid)]

\* the ranges of a laser scan that pass valid_mask
ScanRows(m) ==
  LET valid == {i \in DOMAIN m.ranges : m.ranges[i] = "valid"}
  IN [ok |-> valid # {}, rows |-> Masked(valid)]

SensorRows(m) ==
  IF m.kind = "pointcloud2" THEN CloudRows(m) ELSE ScanRows(m)

\* _extract_pointcloud_data(msg, max_points); every exception gives None
ExtractPointcloudData(m, cap, indices) ==
  IF CloudRows(m).ok THEN Emit(CloudRows(m).rows, cap, indices) ELSE NoneData

\* _extract_laserscan_data(msg, max_points)
ExtractLaserscanData(m, cap, indices) ==
  IF ScanRows(m).ok THEN Emit(ScanRows(m).rows, cap, indices) ELSE NoneData

(* ---------------------- the subscription manager ----------------------- *)
\* (variant: the critical sections are entered without the lock)
CanAcquireUnlocked(lock) == TRUE

\* `with self.subscription_lock`: entered only while no thread holds the lock
CanAcquire(lock) == lock = NoOwner

\* (variant: the already-subscribed test is missing)
NeverSubscribed(m, topic_name) == FALSE

\* `if topic_name in self.topic_subscriptions: return True`
AlreadySubscribed(m, topic_name) == topic_name \in DOMAIN m.topic_subscriptions

\* (variant: the subscription is opened and stored before the type is
\* resolved, so a resolution failure leaves it behind)
SubscribeBodyOpenFirst(m, topic_name, topic_type, pubs, fails, openOk) ==
  IF ~openOk THEN [m |-> m, ok |-> FALSE]
  ELSE LET hs == CreateSubscription(m.handles, topic_name,
                                    DetectTopicQos(pubs, fails))
       IN [m |-> [m EXCEPT
                    !.topic_subscriptions = DictSet(@, topic_name, Len(hs)),
                    !.handles = hs],
           ok |-> Resolves(topic_type)]

\* subscribe_to_topic, the try block: [m: the manager afterwards, ok: the
\* value returned]. resolve/open failures are caught and give False.
SubscribeBody(m, topic_name, topic_type, pubs, fails, openOk) ==
  IF ~Resolves(topic_type) THEN [m |-> m, ok |-> FALSE]
  ELSE LET qos_profile == DetectTopicQos(pubs, fails)
       IN IF ~openOk THEN [m |-> m, ok |-> FALSE]
          ELSE LET hs == CreateSubscription(m.handles, topic_name, qos_profile)
               IN [m |-> [m EXCEPT
                            !.topic_subscriptions = DictSet(@, topic_name, Len(hs)),
                            !.handles = hs],
                   ok |-> TRUE]

\* (variant: the cached entry is not dropped)
UnsubscribeKeepCache(m, topic_name, closeOk) ==
  IF topic_name \in DOMAIN m.topic_subscriptions
    THEN LET hs == DestroySubscription(m.handles,
                                       m.topic_subscriptions[topic_name], closeOk)
         IN IF closeOk
              THEN [m EXCEPT !.topic_subscriptions = DictDel(@, topic_name),
                             !.handles = hs]
              ELSE [m EXCEPT !.handles = hs]
    ELSE m

\* unsubscribe_from_topic; closeOk = FALSE: destroy_subscription raises and
\* the exception leaves the method before the two `del`
UnsubscribeFromTopic(m, topic_name, closeOk) ==
  IF topic_name \in DOMAIN m.topic_subscriptions
    THEN LET hs == DestroySubscription(m.handles,
                                       m.topic_subscriptions[topic_name], closeOk)
         IN IF closeOk
              THEN [topic_subscriptions |-> DictDel(m.topic_subscriptions, topic_name),
                    latest_messages |-> DictDel(m.latest_messages, topic_name),
                    handles |-> hs]
              ELSE [m EXCEPT !.handles = hs]
    ELSE m

\* get_latest_message: dict.get, None when the key is absent
HasLatest(latest, topic_name) == topic_name \in DOMAIN latest

\* (variant: an entry already cached is kept)
CacheWriteKeepFirst(latest, topic_name, msg_dict, ts) ==
  IF topic_name \in DOMAIN latest THEN latest
  ELSE [x \in DOMAIN latest \cup {topic_name} |->
          IF x = topic_name THEN [data |-> msg_dict, timestamp |-> ts]
          ELSE latest[x]]

\* the callback's `self.latest_messages[topic_name] = {...}`
CacheWrite(latest, topic_name, msg_dict, ts) ==
  DictSet(latest, topic_name, [data |-> msg_dict, timestamp |-> ts])

\* (variant: no try/except around the close)
ExceptReraise(raised) == raised

\* reset_runtime_state, `except Exception: pass`: a close that raised is
\* swallowed, the loop goes on (TRUE would mean the exception leaves the loop)
ExceptPropagates(raised) == FALSE

Min(S) == CHOOSE x \in S : \A y \in S : x <= y

\* `for subscription in self.topic_subscriptions.values()`, in insertion
\* order (the order of the handle ids); fails: the handles whose close raises
RECURSIVE ResetLoop(_, _, _)
ResetLoop(hs, todo, fails) ==
  IF todo = {} THEN [handles |-> hs, raised |-> FALSE]
  ELSE LET h == Min(todo)
           hs2 == DestroySubscription(hs, h, h \notin fails)
       IN IF h \in fails /\ ExceptPropagates(TRUE)
            THEN [handles |-> hs2, raised |-> TRUE]
            ELSE ResetLoop(hs2, todo \ {h}, fails)

TableHandles(m) == {m.topic_subscriptions[t] : t \in DOMAIN m.topic_subscriptions}

ResetRuntimeState(m, fails) ==
  LET r == ResetLoop(m.handles, TableHandles(m), fails)
  IN IF r.raised
       THEN [m EXCEPT !.handles = r.handles]
       ELSE [topic_subscriptions |-> EmptyDict,
             latest_messages |-> EmptyDict,
             handles |-> r.handles]

SetManager(m) ==
  /\ topic_subscriptions' = m.topic_subscriptions
  /\ latest_messages' = m.latest_messages
  /\ handles' = m.handles

(* ------------------------- streaming sessions -------------------------- *)
\* `if not topic_name.startswith('/'): topic_name = '/' + topic_name`
WithLeadingSlash(path) == IF path = "a" THEN "/a" ELSE path

Frame(type, message, data, ts) ==
  [type |-> type, message |-> message, data |-> data, timestamp |-> ts]
NoFrame == Frame("none", "", <<>>, 0)

\* (variant: >= instead of >)
ShouldSendGeq(ts, last_timestamp) == ts >= last_timestamp

\* `latest_msg['timestamp'] > last_timestamp`
ShouldSend(ts, last_timestamp) == ts > last_timestamp

\* (variant: the test of last_timestamp is missing)
ShouldWarnAnyTime(v, t) ==
  ~v.no_message_warned /\ t - v.subscribe_time > GRACE_PERIOD

\* `not no_message_warned and last_timestamp == 0
\*  and time.time() - subscribe_time > 5.0`
ShouldWarn(v, t) ==
  ~v.no_message_warned /\ v.last_timestamp = 0 /\ t - v.subscribe_time > GRACE_PERIOD

\* listing: what the topic listing said about topic_name;
\* subscribed: subscribe_to_topic has returned True to this call of ws_topic;
\* out: the frame handed to ws.send while pc = "send";
\* recv: the thread running receive_messages ("off": not started);
\* warnings: the 'warning' frames the viewer has got in this session
NotRead == [listed |-> FALSE, types |-> <<>>]
IdleSession ==
  [pc |-> "idle", topic_name |-> "", listing |-> NotRead,
   topic_type |-> NoType, last_timestamp |-> 0, subscribe_time |-> 0, no_message_warned |-> FALSE,
   stop_streaming |-> FALSE, alive |-> TRUE, subscribed |-> FALSE,
   out |-> NoFrame, warnings |-> 0, recv |-> "off"]

IdleSpin == [pc |-> "idle", topic_name |-> "", msg |-> <<>>, msg_dict |-> <<>>]

\* graph_update_loop between two rounds. current_graph, idx (the position of
\* `for client in ws_clients`) and dead_clients are its locals;
\* prev: the snapshot the last poll obtained, quiet: the poll before it had
\* obtained that snapshot too, it is the one in last_graph_data and the last
\* poll sent nothing,
\* start: the channels registered when the round began,
\* sent: the channels that accepted the send of this round
IdleLoop(prev, quiet) ==
  [pc |-> "poll", current_graph |-> NoGraph, idx |-> 0, dead_clients |-> {},
   prev |-> prev, quiet |-> quiet, start |-> {}, sent |-> {}]

\* got: the type of the last frame the viewer received,
\* snapshot: the snapshot of the last graph_update it received,
\* since: where that graph_update came from and what happened after it: sent
\* on connect ("hello"), sent by a push round ("push"), a reset ran after
\* that round began ("reset"), the topology changed after the viewer
\* received it ("changed")
IdleClient ==
  [pc |-> "idle", alive |-> TRUE, got |-> "none", snapshot |-> NoGraph,
   since |-> "none"]

InitService ==
  /\ topic_subscriptions = EmptyDict
  /\ latest_messages = EmptyDict
  /\ subscription_lock = NoOwner
  /\ handles = <<>>
  /\ now = StartTime
  /\ shutdown_event = FALSE
  /\ session = [s \in Sessions |-> IdleSession]
  /\ spin = IdleSpin
  /\ ws_clients = <<>>
  /\ last_graph_data = NoGraph
  /\ graph_data = "g1"
  /\ gloop = IdleLoop(NoGraph, FALSE)
  /\ client = [c \in Clients |-> IdleClient]

\* no call of _detect_topic_qos, of _extract_*_data or of
\* _value_to_json_safe is being looked at on its own
IdleQos ==
  /\ pub_info_list = <<>>
  /\ query_fails = FALSE
  /\ qos = NoQos

IdleSensor ==
  /\ sensor_msg = NoSensorMsg
  /\ max_points = MAX_POINTS
  /\ pc_data = NotExtracted

IdleJson ==
  /\ field_value = NoValue
  /\ json_value = NotConverted

IdleImage ==
  /\ image_msg = NoImage
  /\ image_dict = NotDecoded

IdleName ==
  /\ namespace = <<>>
  /\ node_name = <<>>
  /\ full_node_name = NotBuilt

Init ==
  /\ InitService
  /\ IdleQos
  /\ IdleSensor
  /\ IdleJson
  /\ IdleImage
  /\ IdleName

\* ws_topic is about to call ws.send(frame)
Sending(v, frame) == [v EXCEPT !.pc = "send", !.out = frame]

\* ws_topic has left the try block: its locals are dead
Leave(v) ==
  [v EXCEPT !.pc = "finally", !.out = NoFrame, !.listing = NotRead,
            !.topic_type = NoType,
            !.last_timestamp = 0, !.subscribe_time = 0,
            !.no_message_warned = FALSE, !.warnings = 0]

\* (variant: a name that matches no entry gets a default type)
LookupTypeFallback(entry) ==
  IF entry.listed /\ entry.types # <<>> THEN entry.types[1] ELSE GoodType

\* the lookup in the listing: `types[0] if types else None` of the entry
\* whose name matches, None when no entry matches
LookupType(entry) ==
  IF entry.listed /\ entry.types # <<>> THEN entry.types[1] ELSE NoType

\* ws_topic up to the topic lookup: the viewer connects with a path and the
\* handler reads the bus's topic listing (ros2_node is set by main before the
\* server accepts connections, so the `ros2_node is None` return is not taken)
WsOpen(s) ==
  /\ session[s].pc = "idle"
  /\ \E path \in RawPaths, entry \in ListingOutcomes :
       LET v == [session[s] EXCEPT !.topic_name = WithLeadingSlash(path),
                                   !.listing = entry,
                                   !.topic_type = LookupType(entry)]
       IN session' = [session EXCEPT ![s] =
            IF v.topic_type = NoType
              THEN Sending(v, Frame("error", "Topic not found", <<>>, 0))
              ELSE [v EXCEPT !.pc = "subscribe"]]
  /\ UNCHANGED <<topic_subscriptions, latest_messages, subscription_lock,
                 handles, now, shutdown_event, spin, qosVars, graphVars, pureVars>>

\* ws_topic after subscribe_to_topic returned `ok`
AfterSubscribe(v, ok) ==
  IF ok THEN Sending([v EXCEPT !.subscribed = TRUE],
                     Frame("info", "Subscribed", <<>>, 0))
        ELSE Sending(v, Frame("error", "Failed to subscribe", <<>>, 0))

\* subscribe_to_topic: take the lock and test the table
SubEnter(s) ==
  /\ session[s].pc = "subscribe"
  /\ CanAcquire(subscription_lock)
  /\ IF AlreadySubscribed(Manager, session[s].topic_name)
       THEN /\ session' = [session EXCEPT ![s] = AfterSubscribe(@, TRUE)]
            /\ UNCHANGED subscription_lock
       ELSE /\ session' = [session EXCEPT ![s].pc = "sub_create"]
            /\ subscription_lock' = s
  /\ UNCHANGED <<topic_subscriptions, latest_messages, handles, now,
                 shutdown_event, spin, qosVars, graphVars, pureVars>>

\* subscribe_to_topic: the try block, then the lock is released
SubCreate(s, lists) ==
  /\ session[s].pc = "sub_create"
  /\ \E pubs \in lists, fails \in BOOLEAN, openOk \in BOOLEAN :
       LET r == SubscribeBody(Manager, session[s].topic_name,
                              session[s].topic_type, pubs, fails, openOk)
       IN /\ SetManager(r.m)
          /\ session' = [session EXCEPT ![s] = AfterSubscribe(@, r.ok)]
  /\ subscription_lock' = NoOwner
  /\ UNCHANGED <<now, shutdown_event, spin, qosVars, graphVars, pureVars>>

\* ws.send(out): the frame reaches the viewer, or raises once the viewer is
\* gone; what ws_topic does next depends on which send it was
WsSend(s) ==
  LET v == session[s]
  IN /\ v.pc = "send"
     /\ session' = [session EXCEPT ![s] =
          IF ~v.alive \/ v.out.type = "error" THEN Leave(v)
          ELSE IF v.out.type = "info"
            THEN [v EXCEPT !.pc = "streaming", !.out = NoFrame,
                           !.last_timestamp = 0, !.subscribe_time = now,
                           !.no_message_warned = FALSE, !.recv = "on"]
          ELSE IF v.out.type = "message"
            THEN [v EXCEPT !.pc = "streaming", !.out = NoFrame,
                           !.last_timestamp = v.out.timestamp,
                           !.no_message_warned = FALSE]
          ELSE [v EXCEPT !.pc = "streaming", !.out = NoFrame,
                         !.no_message_warned = TRUE,
                         !.warnings = IF @ < MaxWarnings THEN @ + 1 ELSE @]]
     /\ UNCHANGED <<topic_subscriptions, latest_messages, subscription_lock,
                    handles, now, shutdown_event, spin, qosVars, graphVars, pureVars>>

\* (variant: the loop tests shutdown_event only)
LoopContinuesUntilShutdown(stop_streaming, shutdown) == ~shutdown

\* `while not stop_streaming.is_set() and not shutdown_event.is_set()`
LoopContinues(stop_streaming, shutdown) == ~stop_streaming /\ ~shutdown

\* one iteration of the poll loop: get_latest_message, then the choice of
\* what to send
WsPoll(s) ==
  LET v == session[s]
      t == v.topic_name
  IN /\ v.pc = "streaming"
     /\ LoopContinues(v.stop_streaming, shutdown_event)
     /\ CanAcquire(subscription_lock)
     /\ session' = [session EXCEPT ![s] =
          IF HasLatest(latest_messages, t)
             /\ ShouldSend(latest_messages[t].timestamp, v.last_timestamp)
            THEN Sending(v, Frame("message", t, latest_messages[t].data,
                                  latest_messages[t].timestamp))
          ELSE IF ShouldWarn(v, now)
            THEN Sending(v, Frame("warning", "No messages received", <<>>, 0))
          ELSE v]
     /\ UNCHANGED <<topic_subscriptions, latest_messages, subscription_lock,
                    handles, now, shutdown_event, spin, qosVars, graphVars, pureVars>>

\* the loop condition fails: stop_streaming or shutdown_event is set
WsLoopExit(s) ==
  /\ session[s].pc = "streaming"
  /\ ~LoopContinues(session[s].stop_streaming, shutdown_event)
  /\ session' = [session EXCEPT ![s] = Leave(@)]
  /\ UNCHANGED <<topic_subscriptions, latest_messages, subscription_lock,
                 handles, now, shutdown_event, spin, qosVars, graphVars, pureVars>>

\* the thread of receive_messages is in its loop, blocked in ws.receive
Receiving(v) == v.recv = "on"

\* ws_topic has returned: the connection is closed on the server side too
Returned(v) == v.pc = "done"

\* receive_messages reads 'close' from the viewer (any other message is read
\* and changes nothing)
RecvClose(s) ==
  /\ Receiving(session[s])
  /\ session[s].alive /\ ~Returned(session[s])
  /\ session' = [session EXCEPT ![s].stop_streaming = TRUE, ![s].recv = "ended"]
  /\ UNCHANGED <<topic_subscriptions, latest_messages, subscription_lock,
                 handles, now, shutdown_event, spin, qosVars, graphVars, pureVars>>

\* the viewer drops the connection
ViewerDisconnect(s) ==
  /\ session[s].pc \notin {"idle", "done"}
  /\ session[s].alive
  /\ session' = [session EXCEPT ![s].alive = FALSE]
  /\ UNCHANGED <<topic_subscriptions, latest_messages, subscription_lock,
                 handles, now, shutdown_event, spin, qosVars, graphVars, pureVars>>

\* receive_messages: ws.receive raises on the closed connection
RecvError(s) ==
  /\ Receiving(session[s])
  /\ ~session[s].alive \/ Returned(session[s])
  /\ session' = [session EXCEPT ![s].stop_streaming = TRUE, ![s].recv = "ended"]
  /\ UNCHANGED <<topic_subscriptions, latest_messages, subscription_lock,
                 handles, now, shutdown_event, spin, qosVars, graphVars, pureVars>>

\* the finally block: stop_streaming.set(), unsubscribe_from_topic; ws_topic
\* returns and the connection is closed
WsFinally(s, outcomes) ==
  /\ session[s].pc = "finally"
  /\ CanAcquire(subscription_lock)
  /\ \E closeOk \in outcomes :
       SetManager(UnsubscribeFromTopic(Manager, session[s].topic_name, closeOk))
  /\ session' = [session EXCEPT ![s].pc = "done", ![s].stop_streaming = TRUE,
                                ![s].alive = FALSE]
  /\ UNCHANGED <<subscription_lock, now, shutdown_event, spin, qosVars, graphVars, pureVars>>

(* ----------------------- the bus delivery thread ----------------------- *)
\* spin_once dispatches a message of an open handle to its callback, which
\* decodes it before taking the lock; decodes = FALSE: _message_to_dict
\* raises and the exception leaves the callback and spin_once
Deliver(msgs, outcomes) ==
  /\ spin.pc = "idle"
  /\ ~shutdown_event
  /\ \E h \in DOMAIN handles, msg \in msgs, decodes \in outcomes :
       /\ handles[h].state = "open"
       /\ spin' = IF decodes
                    THEN [pc |-> "decoded", topic_name |-> handles[h].topic,
                          msg |-> msg, msg_dict |-> MessageToDict(msg)]
                    ELSE [pc |-> "raised", topic_name |-> handles[h].topic,
                          msg |-> msg, msg_dict |-> <<>>]
  /\ UNCHANGED <<topic_subscriptions, latest_messages, subscription_lock,
                 handles, now, shutdown_event, session, qosVars, graphVars, pureVars>>

\* the callback takes the lock and overwrites the cache entry
CbWrite ==
  /\ spin.pc = "decoded"
  /\ CanAcquire(subscription_lock)
  /\ latest_messages' = CacheWrite(latest_messages, spin.topic_name,
                                   spin.msg_dict, now)
  /\ spin' = IdleSpin
  /\ UNCHANGED <<topic_subscriptions, subscription_lock, handles, now,
                 shutdown_event, session, qosVars, graphVars, pureVars>>

\* (variant: ros2_spin has no try/except, an exception ends the thread)
CatchEnds(shutdown) == "stopped"

\* ros2_spin, `except Exception: if shutdown_event.is_set(): break`: where
\* the thread goes on after spin_once raised
CatchNext(shutdown) == IF shutdown THEN "stopped" ELSE "idle"

\* ros2_spin catches the exception of a callback
SpinCatch ==
  /\ spin.pc = "raised"
  /\ spin' = [IdleSpin EXCEPT !.pc = CatchNext(shutdown_event)]
  /\ UNCHANGED <<topic_subscriptions, latest_messages, subscription_lock,
                 handles, now, shutdown_event, session, qosVars, graphVars, pureVars>>

\* ros2_spin: `while not shutdown_event.is_set() and rclpy.ok()` fails
SpinExit ==
  /\ spin.pc = "idle"
  /\ shutdown_event
  /\ spin' = [spin EXCEPT !.pc = "stopped"]
  /\ UNCHANGED <<topic_subscriptions, latest_messages, subscription_lock,
                 handles, now, shutdown_event, session, qosVars, graphVars, pureVars>>

(* ------------------------ the topology push loop ---------------------- *)
InList(list, x) == \E i \in DOMAIN list : list[i] = x

\* list.remove(x): the first occurrence goes
ListRemove(list, x) ==
  LET i == CHOOSE i \in DOMAIN list :
             list[i] = x /\ \A j \in 1..(i - 1) : list[j] # x
  IN SubSeq(list, 1, i - 1) \o SubSeq(list, i + 1, Len(list))

\* `if client in ws_clients: ws_clients.remove(client)` for each dead client
RECURSIVE Prune(_, _)
Prune(list, dead) ==
  IF dead = {} THEN list
  ELSE LET c == Min(dead)
       IN Prune(IF InList(list, c) THEN ListRemove(list, c) ELSE list,
                dead \ {c})

\* (variant: the snapshot is pushed whether it changed or not)
GraphChangedAlways(current_graph, last) == TRUE

\* `current_graph != last_graph_data`, a comparison by value
GraphChanged(current_graph, last) == current_graph # last

\* the top of a round: get_graph_data and the test `current_graph !=
\* last_graph_data and ws_clients`; ok = FALSE: the bus is not available
\* (rclpy.ok() is false or get_graph_data raises), the loop waits
GraphPoll ==
  /\ gloop.pc = "poll"
  /\ ~shutdown_event
  /\ \E ok \in BOOLEAN :
       IF ~ok
         THEN /\ gloop' = [IdleLoop(NoGraph, FALSE) EXCEPT !.pc = "wait"]
              /\ UNCHANGED last_graph_data
       ELSE IF GraphChanged(graph_data, last_graph_data) /\ ws_clients # <<>>
         THEN /\ last_graph_data' = graph_data
              /\ gloop' = [pc |-> "send", current_graph |-> graph_data,
                           idx |-> 1, dead_clients |-> {}, prev |-> graph_data,
                           quiet |-> FALSE,
                           start |-> {ws_clients[i] : i \in DOMAIN ws_clients},
                           sent |-> {}]
         ELSE /\ gloop' = [IdleLoop(graph_data, graph_data = gloop.prev
                                                   /\ graph_data = last_graph_data)
                             EXCEPT !.pc = "wait"]
              /\ UNCHANGED last_graph_data
  /\ UNCHANGED <<topic_subscriptions, latest_messages, subscription_lock,
                 handles, now, shutdown_event, session, spin, qosVars, pureVars,
                 ws_clients, graph_data, client>>

\* one iteration of `for client in ws_clients`: the list iterator reads the
\* element at its position in the list as it is now; a send that raises puts
\* the channel in dead_clients
GraphSend ==
  /\ gloop.pc = "send"
  /\ gloop.idx <= Len(ws_clients)
  /\ LET c == ws_clients[gloop.idx]
     IN IF client[c].alive
          THEN /\ client' = [client EXCEPT
                    ![c].got = "graph_update",
                    ![c].snapshot = gloop.current_graph,
                    ![c].since = IF last_graph_data = gloop.current_graph
                                   THEN "push" ELSE "reset"]
               /\ gloop' = [gloop EXCEPT !.idx = @ + 1, !.sent = @ \cup {c}]
          ELSE /\ gloop' = [gloop EXCEPT !.idx = @ + 1,
                                         !.dead_clients = @ \cup {c}]
               /\ UNCHANGED client
  /\ UNCHANGED <<topic_subscriptions, latest_messages, subscription_lock,
                 handles, now, shutdown_event, session, spin, qosVars, pureVars,
                 ws_clients, last_graph_data, graph_data>>

\* the iterator is exhausted: the dead channels are removed, then the wait
GraphPrune ==
  /\ gloop.pc = "send"
  /\ gloop.idx > Len(ws_clients)
  /\ ws_clients' = Prune(ws_clients, gloop.dead_clients)
  /\ gloop' = [IdleLoop(gloop.prev, FALSE) EXCEPT !.pc = "wait"]
  /\ UNCHANGED <<topic_subscriptions, latest_messages, subscription_lock,
                 handles, now, shutdown_event, session, spin, qosVars, pureVars,
                 last_graph_data, graph_data, client>>

\* shutdown_event.wait(...) returns
GraphWait ==
  /\ gloop.pc = "wait"
  /\ gloop' = [gloop EXCEPT !.pc = "poll"]
  /\ UNCHANGED <<topic_subscriptions, latest_messages, subscription_lock,
                 handles, now, shutdown_event, session, spin, qosVars, pureVars,
                 ws_clients, last_graph_data, graph_data, client>>

\* `while not shutdown_event.is_set()` fails
GraphLoopExit ==
  /\ gloop.pc = "poll"
  /\ shutdown_event
  /\ gloop' = [gloop EXCEPT !.pc = "stopped"]
  /\ UNCHANGED <<topic_subscriptions, latest_messages, subscription_lock,
                 handles, now, shutdown_event, session, spin, qosVars, pureVars,
                 ws_clients, last_graph_data, graph_data, client>>

\* the bus topology changes
TopologyChange ==
  /\ \E g \in Graphs \ {graph_data} : graph_data' = g
  /\ client' = [c \in Clients |->
                  IF client[c].since = "none" THEN client[c]
                  ELSE [client[c] EXCEPT !.since = "changed"]]
  /\ UNCHANGED <<topic_subscriptions, latest_messages, subscription_lock,
                 handles, now, shutdown_event, session, spin, qosVars, pureVars,
                 ws_clients, last_graph_data, gloop>>

(* ------------------------- /ws/graph connections ----------------------- *)
\* ws_graph: `ws_clients.append(ws)`
GraphOpen(c) ==
  /\ client[c].pc = "idle"
  /\ ws_clients' = Append(ws_clients, c)
  /\ client' = [client EXCEPT ![c].pc = "hello"]
  /\ UNCHANGED <<topic_subscriptions, latest_messages, subscription_lock,
                 handles, now, shutdown_event, session, spin, qosVars, pureVars,
                 last_graph_data, graph_data, gloop>>

\* ws_graph: the initial graph_update; a send that raises leaves the try
GraphHello(c) ==
  /\ client[c].pc = "hello"
  /\ client' = [client EXCEPT ![c] =
       IF @.alive THEN [@ EXCEPT !.pc = "open", !.got = "graph_update",
                                 !.snapshot = graph_data, !.since = "hello"]
                  ELSE [@ EXCEPT !.pc = "finally"]]
  /\ UNCHANGED <<topic_subscriptions, latest_messages, subscription_lock,
                 handles, now, shutdown_event, session, spin, qosVars, pureVars,
                 ws_clients, last_graph_data, graph_data, gloop>>

\* ws_graph, `while True`: ws.receive returns 'ping', 'pong' is sent
GraphPing(c) ==
  /\ client[c].pc = "open" /\ client[c].alive
  /\ client[c].got # "pong"
  /\ client' = [client EXCEPT ![c].got = "pong"]
  /\ UNCHANGED <<topic_subscriptions, latest_messages, subscription_lock,
                 handles, now, shutdown_event, session, spin, qosVars, pureVars,
                 ws_clients, last_graph_data, graph_data, gloop>>

\* the viewer drops the connection
GraphDrop(c) ==
  /\ client[c].pc \in {"hello", "open"} /\ client[c].alive
  /\ client' = [client EXCEPT ![c].alive = FALSE]
  /\ UNCHANGED <<topic_subscriptions, latest_messages, subscription_lock,
                 handles, now, shutdown_event, session, spin, qosVars, pureVars,
                 ws_clients, last_graph_data, graph_data, gloop>>

\* ws_graph: ws.receive raises on the dropped connection, `except: pass`
GraphRecvError(c) ==
  /\ client[c].pc = "open" /\ ~client[c].alive
  /\ client' = [client EXCEPT ![c].pc = "finally"]
  /\ UNCHANGED <<topic_subscriptions, latest_messages, subscription_lock,
                 handles, now, shutdown_event, session, spin, qosVars, pureVars,
                 ws_clients, last_graph_data, graph_data, gloop>>

\* ws_graph, finally: `if ws in ws_clients: ws_clients.remove(ws)`
GraphFinally(c) ==
  /\ client[c].pc = "finally"
  /\ ws_clients' = IF InList(ws_clients, c) THEN ListRemove(ws_clients, c)
                                            ELSE ws_clients
  /\ client' = [client EXCEPT ![c] = [IdleClient EXCEPT !.pc = "done", !.alive = FALSE]]
  /\ UNCHANGED <<topic_subscriptions, latest_messages, subscription_lock,
                 handles, now, shutdown_event, session, spin, qosVars, pureVars,
                 last_graph_data, graph_data, gloop>>

ClientStep(c) ==
  \/ GraphOpen(c)
  \/ GraphHello(c)
  \/ GraphPing(c)
  \/ GraphDrop(c)
  \/ GraphRecvError(c)
  \/ GraphFinally(c)

\* one round of graph_update_loop
LoopRound ==
  \/ GraphPoll
  \/ GraphSend
  \/ GraphPrune
  \/ GraphWait

LoopStep ==
  \/ LoopRound
  \/ GraphLoopExit

(* ------------------------- reset, clock, shutdown ---------------------- *)
\* POST /api/reset: reset_runtime_state, then `last_graph_data = None`
Reset(outcomes) ==
  /\ CanAcquire(subscription_lock)
  /\ \E fails \in SUBSET TableHandles(Manager) :
       /\ (fails # {} => FALSE \in outcomes)
       /\ SetManager(ResetRuntimeState(Manager, fails))
  /\ last_graph_data' = NoGraph
  /\ client' = [c \in Clients |->
                  IF client[c].since = "push"
                    THEN [client[c] EXCEPT !.since = "reset"]
                    ELSE client[c]]
  /\ UNCHANGED <<subscription_lock, now, shutdown_event, session, spin, qosVars, pureVars,
                 ws_clients, graph_data, gloop>>

Tick ==
  /\ now < MaxTime
  /\ now' = now + TickStep
  /\ UNCHANGED <<topic_subscriptions, latest_messages, subscription_lock,
                 handles, shutdown_event, session, spin, qosVars, graphVars, pureVars>>

\* cleanup(): shutdown_event.set()
Shutdown ==
  /\ ~shutdown_event
  /\ shutdown_event' = TRUE
  /\ UNCHANGED <<topic_subscriptions, latest_messages, subscription_lock,
                 handles, now, session, spin, qosVars, graphVars, pureVars>>

\* the steps of viewer session s; lists: the publisher lists the bus may
\* report, outcomes: whether closing a handle may raise (FALSE) or not
SessionStep(s, lists, outcomes) ==
  \/ WsOpen(s)
  \/ SubEnter(s)
  \/ SubCreate(s, lists)
  \/ WsSend(s)
  \/ WsPoll(s)
  \/ WsLoopExit(s)
  \/ RecvClose(s)
  \/ ViewerDisconnect(s)
  \/ RecvError(s)
  \/ WsFinally(s, outcomes)

\* the whole service. Its state space at the bounds above is beyond an
\* exhaustive search, so the properties are checked under the two
\* restrictions of it that follow.
Next ==
  \/ \E s \in Sessions : SessionStep(s, PubLists, BOOLEAN)
  \/ Deliver(Msgs, BOOLEAN)
  \/ CbWrite
  \/ SpinCatch
  \/ Reset(BOOLEAN)
  \/ Tick
  \/ Shutdown
  \/ \E c \in Clients : ClientStep(c)
  \/ LoopStep
  \/ TopologyChange
  \/ SpinExit

Spec == Init /\ [][Next]_vars

\* one viewer, every input: the timing and the content of what it is sent
NextSolo ==
  \/ SessionStep(1, PubLists, BOOLEAN)
  \/ Deliver(Msgs, {TRUE})
  \/ CbWrite
  \/ Reset(BOOLEAN)
  \/ Tick
  \/ Shutdown

SpecSolo == Init /\ [][NextSolo]_vars

\* concurrent viewers at one clock reading, messages of one content
ShortPubLists == {pubs \in PubLists : Len(pubs) <= 1}

NextDuo ==
  \/ \E s \in Sessions : SessionStep(s, ShortPubLists, BOOLEAN)
  \/ Deliver({Int32(1)}, BOOLEAN)
  \/ CbWrite
  \/ SpinCatch
  \/ Reset(BOOLEAN)

SpecDuo == Init /\ [][NextDuo]_vars

\* _detect_topic_qos on its own, for every publisher list
InitQos ==
  /\ InitService
  /\ pub_info_list \in PubLists
  /\ query_fails \in BOOLEAN
  /\ qos = NoQos
  /\ IdleSensor
  /\ IdleJson
  /\ IdleImage
  /\ IdleName

DetectQos ==
  /\ qos = NoQos
  /\ qos' = DetectTopicQos(pub_info_list, query_fails)
  /\ UNCHANGED <<topic_subscriptions, latest_messages, subscription_lock,
                 handles, now, shutdown_event, session, spin,
                 pub_info_list, query_fails, graphVars, pureVars>>

SpecQos == InitQos /\ [][DetectQos]_vars

\* the topology push loop while the service runs, the /ws/graph viewers and
\* /api/reset
NextGraph ==
  \/ \E c \in Clients : ClientStep(c)
  \/ LoopRound
  \/ TopologyChange
  \/ Reset({TRUE})

SpecGraph == Init /\ [][NextGraph]_vars

\* the extraction of point data on its own, for every message and cap
InitCloud ==
  /\ InitService
  /\ IdleQos
  /\ IdleJson
  /\ IdleImage
  /\ IdleName
  /\ sensor_msg \in PointCloudMsgs \cup LaserScanMsgs
  /\ max_points \in Caps
  /\ pc_data = NotExtracted

ExtractData ==
  /\ pc_data = NotExtracted
  /\ \E indices \in Draws(Len(SensorRows(sensor_msg).rows), max_points) :
       pc_data' = IF sensor_msg.kind = "pointcloud2"
                    THEN ExtractPointcloudData(sensor_msg, max_points, indices)
                    ELSE ExtractLaserscanData(sensor_msg, max_points, indices)
  /\ UNCHANGED <<topic_subscriptions, latest_messages, subscription_lock,
                 handles, now, shutdown_event, session, spin, qosVars,
                 graphVars, sensor_msg, max_points, jsonVars, imageVars,
                 nameVars>>

SpecCloud == InitCloud /\ [][ExtractData]_vars

\* _value_to_json_safe on its own, for every value
InitJson ==
  /\ InitService
  /\ IdleQos
  /\ IdleSensor
  /\ IdleImage
  /\ IdleName
  /\ field_value \in Values
  /\ json_value = NotConverted

Convert ==
  /\ json_value = NotConverted
  /\ json_value' = ValueToJsonSafe(field_value)
  /\ UNCHANGED <<topic_subscriptions, latest_messages, subscription_lock,
                 handles, now, shutdown_event, session, spin, qosVars,
                 graphVars, sensorVars, field_value, imageVars, nameVars>>

SpecJson == InitJson /\ [][Convert]_vars

\* _message_to_dict on a CompressedImage, for every label and payload size
InitImage ==
  /\ InitService
  /\ IdleQos
  /\ IdleSensor
  /\ IdleJson
  /\ IdleName
  /\ image_msg \in CompressedImageMsgs
  /\ image_dict = NotDecoded

ConvertImage ==
  /\ image_dict = NotDecoded
  /\ \E decode \in DecodeOutcomes :
       image_dict' = CompressedImageToDict(image_msg, decode)
  /\ UNCHANGED <<topic_subscriptions, latest_messages, subscription_lock,
                 handles, now, shutdown_event, session, spin, qosVars,
                 graphVars, sensorVars, jsonVars, image_msg, nameVars>>

SpecImage == InitImage /\ [][ConvertImage]_vars

\* the full name of one node or endpoint, for every pair the bus reports
InitName ==
  /\ InitService
  /\ IdleQos
  /\ IdleSensor
  /\ IdleJson
  /\ IdleImage
  /\ namespace \in BusNamespaces
  /\ node_name \in BusNames
  /\ full_node_name = NotBuilt

BuildName ==
  /\ full_node_name = NotBuilt
  /\ full_node_name' = FullNodeName(namespace, node_name)
  /\ UNCHANGED <<topic_subscriptions, latest_messages, subscription_lock,
                 handles, now, shutdown_event, session, spin, qosVars,
                 graphVars, sensorVars, jsonVars, imageVars, namespace,
                 node_name>>

SpecName == InitName /\ [][BuildName]_vars

\* the thread of one ws_topic call, from subscribe_to_topic to its return
Handler(s) ==
  \/ SubEnter(s)
  \/ SubCreate(s, {<<>>})
  \/ WsSend(s)
  \/ WsPoll(s)
  \/ WsLoopExit(s)
  \/ WsFinally(s, {TRUE})

\* the thread of one ws_graph call, without what the viewer does
GraphHandler(c) ==
  \/ GraphHello(c)
  \/ GraphRecvError(c)
  \/ GraphFinally(c)

\* every thread of the service with one viewer of each endpoint, up to and
\* after the shutdown signal
NextLive ==
  \/ SessionStep(1, {<<>>}, {TRUE})
  \/ ClientStep(1)
  \/ LoopStep
  \/ Deliver({Int32(1)}, BOOLEAN)
  \/ CbWrite
  \/ SpinCatch
  \/ SpinExit
  \/ Shutdown

\* each thread that can take a step eventually takes one; the viewers and
\* the publishers of the bus are under no such obligation
Fairness ==
  /\ WF_vars(Handler(1))
  /\ WF_vars(RecvError(1))
  /\ WF_vars(GraphHandler(1))
  /\ WF_vars(LoopStep)
  /\ WF_vars(CbWrite)
  /\ WF_vars(SpinCatch)
  /\ WF_vars(SpinExit)

SpecLive == Init /\ [][NextLive]_vars /\ Fairness

TypeOK ==
  /\ DOMAIN topic_subscriptions \subseteq Topics
  /\ DOMAIN latest_messages \subseteq Topics
  /\ now \in StartTime..MaxTime

(* ------------------------------ claims --------------------------------- *)
\* the session has subscribed and not yet left the try block
Subscribed(v) == v.subscribed /\ v.pc \in {"send", "streaming"}

\* C1: whatever the interleaving of subscribe, unsubscribe and reset calls of
\* concurrent sessions, no topic name has more than one open bus subscription.
C1_OneSubscriptionPerTopic ==
  \A t \in Topics : Cardinality(OpenHandles(handles, t)) <= 1

\* two sessions went through subscribe_to_topic for the same topic and stream
\* it; one handle was opened
C1_Witness ==
  \E s \in Sessions, o \in Sessions :
    /\ s # o
    /\ session[s].pc = "streaming" /\ session[o].pc = "streaming"
    /\ session[s].topic_name = session[o].topic_name
    /\ Cardinality(OpenHandles(handles, session[s].topic_name)) = 1

\* C2: when a session that had subscribed ends (its finally block runs),
\* every other session that has subscribed keeps the subscription and the
\* cache entry of its topic (closes that raise set aside).
C2_EndCancelsOnlyItself ==
  [][\A s \in Sessions, o \in Sessions :
       (s # o /\ session[s].pc = "finally" /\ session'[s].pc = "done"
        /\ session[s].subscribed /\ Subscribed(session[o])
        /\ \A h \in DOMAIN handles :
             handles'[h].state = "broken" => handles[h].state = "broken")
       => LET t == session[o].topic_name
          IN /\ t \in DOMAIN topic_subscriptions
                  => /\ t \in DOMAIN topic_subscriptions'
                     /\ topic_subscriptions'[t] = topic_subscriptions[t]
                     /\ handles'[topic_subscriptions[t]] = handles[topic_subscriptions[t]]
             /\ t \in DOMAIN latest_messages
                  => /\ t \in DOMAIN latest_messages'
                     /\ latest_messages'[t] = latest_messages[t]]_vars

\* C3: when the arrival callback of a message completes, the cache holds for
\* that topic one entry, with the decoded data of that message and the time
\* of the write; the entry it replaces is gone and no other entry changes.
C3_LatestWins ==
  [][(spin.pc = "decoded" /\ spin'.pc = "idle")
       => LET t == spin.topic_name
          IN /\ DOMAIN latest_messages' = DOMAIN latest_messages \cup {t}
             /\ latest_messages'[t] =
                  [data |-> MessageToDict(spin.msg), timestamp |-> now]
             /\ \A u \in DOMAIN latest_messages \ {t} :
                  latest_messages'[u] = latest_messages[u]]_vars

\* m1 was cached at t1 and read by a poll (it is being sent); m2 arrived at
\* t2 > t1 and the cache holds m2 only
C3_Witness ==
  \E s \in Sessions :
    LET v == session[s]
    IN /\ v.pc = "send" /\ v.out.type = "message"
       /\ v.out.data = MessageToDict(Int32(1))
       /\ v.topic_name \in DOMAIN latest_messages
       /\ latest_messages[v.topic_name].data = MessageToDict(Int32(2))
       /\ latest_messages[v.topic_name].timestamp > v.out.timestamp

\* C4: a poll hands a 'message' frame to ws.send only when the cached
\* timestamp is greater than the timestamp of the last frame the session
\* sent, which last_timestamp holds: it is set by a successful send and by
\* nothing else, so the frames of a session have increasing timestamps and an
\* unchanged entry is not sent again.
C4_SendOnlyOnAdvance ==
  [][\A s \in Sessions :
       LET v == session[s]
           w == session'[s]
       IN /\ (v.pc = "streaming" /\ w.pc = "send" /\ w.out.type = "message")
               => /\ v.topic_name \in DOMAIN latest_messages
                  /\ w.out.timestamp = latest_messages[v.topic_name].timestamp
                  /\ w.out.timestamp > v.last_timestamp
          /\ (v.pc = "send" /\ v.out.type = "message" /\ w.pc = "streaming")
               => w.last_timestamp = v.out.timestamp
          /\ (v.pc = "send" /\ v.out.type = "warning" /\ w.pc = "streaming")
               => w.last_timestamp = v.last_timestamp
          /\ (v.pc = "streaming" /\ w.pc \in {"streaming", "send"})
               => w.last_timestamp = v.last_timestamp]_vars

\* a session that has sent a frame is sending the next one
C4_Witness ==
  \E s \in Sessions :
    /\ session[s].pc = "send" /\ session[s].out.type = "message"
    /\ session[s].last_timestamp > 0
    /\ session[s].out.timestamp > session[s].last_timestamp

\* C5: subscribe_to_topic returns (ws_topic goes on to its next send) and,
\* when the type does not resolve, returns False; whenever it returns False
\* the subscription table, the cache and the bus handles are as before, the
\* topic has no table entry and no open handle.
C5_FailedSubscribeLeavesNothing ==
  [][\A s \in Sessions :
       LET v == session[s]
           w == session'[s]
           t == v.topic_name
       IN (v.pc = "sub_create" /\ w.pc # "sub_create")
            => /\ w.pc = "send"
               /\ ~Resolves(v.topic_type) => w.out.type = "error"
               /\ w.out.type = "error"
                    => /\ topic_subscriptions' = topic_subscriptions
                       /\ latest_messages' = latest_messages
                       /\ handles' = handles
                       /\ t \notin DOMAIN topic_subscriptions'
                       /\ OpenHandles(handles', t) = {}]_vars

\* subscribe_to_topic has returned False for a type that does not resolve
C5_Witness ==
  \E s \in Sessions :
    /\ session[s].pc = "send"
    /\ session[s].out.message = "Failed to subscribe"
    /\ session[s].topic_type = BadType
    /\ session[s].topic_name \notin DOMAIN topic_subscriptions

ResetStep == session' = session /\ spin' = spin /\ Manager' # Manager

\* C7: when reset_runtime_state returns, the subscription table and the cache
\* are empty and no handle that was in the table is open, also when closing
\* one of them raised; handles outside the table are untouched.
C7_ResetReleasesAll ==
  [][ResetStep
       => /\ DOMAIN topic_subscriptions' = {}
          /\ DOMAIN latest_messages' = {}
          /\ Len(handles') = Len(handles)
          /\ \A h \in DOMAIN handles :
               IF h \in TableHandles(Manager)
                 THEN handles'[h].state # "open"
                 ELSE handles'[h] = handles[h]]_vars

\* two sessions stream two topics and a reset has emptied the tables: the
\* close of the first handle raised, the second handle was closed all the same
C7_Witness ==
  /\ \A s \in Sessions : Subscribed(session[s])
  /\ Len(handles) = 2
  /\ handles[1].state = "broken" /\ handles[2].state = "closed"
  /\ DOMAIN topic_subscriptions = {} /\ DOMAIN latest_messages = {}

\* C8: subscribe_to_topic on a topic that is in the table returns True (the
\* session goes on to send 'info') without entering the try block: the table,
\* the cache, the handles and the lock are as before.
C8_ResubscribeIsNoOp ==
  [][\A s \in Sessions :
       LET v == session[s]
           w == session'[s]
       IN (v.pc = "subscribe" /\ w.pc # "subscribe"
           /\ v.topic_name \in DOMAIN topic_subscriptions)
            => /\ w.pc = "send" /\ w.out.type = "info"
               /\ Manager' = Manager
               /\ subscription_lock' = subscription_lock]_vars

\* a session got True for a topic another session streams, and the bus has
\* seen one handle in all
C8_Witness ==
  \E s \in Sessions, o \in Sessions :
    /\ s # o
    /\ session[o].pc = "streaming"
    /\ session[s].pc = "send" /\ session[s].out.type = "info"
    /\ session[s].topic_name = session[o].topic_name
    /\ Len(handles) = 1 /\ handles[1].state = "open"

\* the publishers _detect_topic_qos got to see
Observed == IF query_fails THEN <<>> ELSE pub_info_list

\* C9: the negotiated profile is best-effort exactly when an observed
\* publisher is best-effort, reliable otherwise (no publisher, failed query);
\* it is volatile whenever an observed publisher is volatile.
C9_QosNegotiation ==
  qos # NoQos
    => /\ qos.reliability =
            IF \E i \in DOMAIN Observed : Observed[i].reliability = BEST_EFFORT
              THEN BEST_EFFORT ELSE RELIABLE
       /\ (\E i \in DOMAIN Observed : Observed[i].durability = VOLATILE)
            => qos.durability = VOLATILE

\* a best-effort publisher followed by a reliable one gave best-effort
C9_Witness ==
  /\ qos # NoQos /\ ~query_fails
  /\ Len(pub_info_list) >= 2
  /\ pub_info_list[1].reliability = BEST_EFFORT
  /\ pub_info_list[Len(pub_info_list)].reliability = RELIABLE
  /\ pub_info_list[1].durability = VOLATILE
  /\ qos.reliability = BEST_EFFORT

\* C10: a session whose topic name the listing does not contain hands the
\* error 'Topic not found' to ws.send and then leaves: it never enters
\* subscribe_to_topic, and from the lookup to its end no handle is opened and
\* no table entry added.
C10_TopicNotFound ==
  [][\A s \in Sessions :
       LET v == session[s]
           w == session'[s]
       IN /\ (v.pc = "idle" /\ w.pc # "idle" /\ ~w.listing.listed)
               => /\ w.pc = "send"
                  /\ w.out = Frame("error", "Topic not found", <<>>, 0)
                  /\ Manager' = Manager
          /\ (v.pc = "send" /\ v.out.message = "Topic not found" /\ w # v)
               => /\ w.pc \in {"send", "finally"}
                  /\ Manager' = Manager
          /\ (v.pc = "finally" /\ w.pc # "finally")
               => /\ w.pc = "done"
                  /\ Len(handles') = Len(handles)
                  /\ DOMAIN topic_subscriptions' \subseteq DOMAIN topic_subscriptions]_vars

\* the error is being sent for a name the listing lacks; no handle was opened
C10_Witness ==
  \E s \in Sessions :
    /\ session[s].pc = "send"
    /\ ~session[s].listing.listed
    /\ session[s].out.message = "Topic not found"
    /\ handles = <<>>

\* C11: a session sends the silence warning at most once; a poll chooses it
\* only when the session has sent no message (last_timestamp = 0), has not
\* warned and more than the grace period has passed since subscribing; the
\* send of the warning leaves the session in its poll loop, where later
\* messages are sent as before.
C11_WarnOnce ==
  /\ [](\A s \in Sessions : session[s].warnings <= 1)
  /\ [][\A s \in Sessions :
         LET v == session[s]
             w == session'[s]
         IN /\ (v.pc = "streaming" /\ w.pc = "send" /\ w.out.type = "warning")
                 => /\ v.warnings = 0 /\ ~v.no_message_warned
                    /\ v.last_timestamp = 0
                    /\ now - v.subscribe_time > GRACE_PERIOD
            /\ (v.pc = "send" /\ v.out.type = "warning" /\ w.pc # "send" /\ v.alive)
                 => /\ w.pc = "streaming"
                    /\ w.warnings = v.warnings + 1
                    /\ w.stop_streaming = v.stop_streaming
                    /\ Manager' = Manager
            /\ (v.pc = "streaming" /\ w.pc = "send" /\ v.warnings > 0)
                 => /\ w.out.type = "message"
                    /\ w.out.data = latest_messages[v.topic_name].data]_vars

\* the session was warned and is now sending a message that arrived later
C11_Witness ==
  \E s \in Sessions :
    /\ session[s].pc = "send" /\ session[s].out.type = "message"
    /\ session[s].warnings = 1
    /\ session[s].out.timestamp - session[s].subscribe_time > GRACE_PERIOD

\* a poll of graph_update_loop that obtained a snapshot
PollStep == gloop.pc = "poll" /\ gloop'.pc \in {"send", "wait"} /\ gloop'.prev # NoGraph

\* C12 as stated: a poll that obtains the snapshot the poll before it obtained
\* sends nothing.
C12_SecondPollSilent ==
  [][(PollStep /\ graph_data = gloop.prev) => gloop'.pc = "wait"]_vars

\* C12: a poll that obtains a snapshot equal to last_graph_data sends nothing
\* and changes nothing; a poll that starts a push round has a viewer
\* registered and records the snapshot in last_graph_data, which only
\* /api/reset clears: so of two consecutive polls with one snapshot the
\* second is silent when the first pushed and no reset came in between.
C12_PushOnChangeOnly ==
  [][PollStep
       => /\ graph_data = last_graph_data
               => /\ gloop'.pc = "wait"
                  /\ client' = client /\ ws_clients' = ws_clients
                  /\ last_graph_data' = last_graph_data
          /\ gloop'.pc = "send"
               => /\ ws_clients # <<>>
                  /\ last_graph_data' = graph_data
          /\ (graph_data = gloop.prev /\ gloop'.pc = "send")
               => last_graph_data # gloop.prev]_vars

\* a round pushed the snapshot and the next poll, with a viewer registered,
\* got the same snapshot and went to the wait
C12_Witness ==
  /\ gloop.pc = "wait" /\ gloop.quiet
  /\ gloop.prev = last_graph_data
  /\ \E c \in Clients : InList(ws_clients, c) /\ client[c].pc = "open"
                          /\ client[c].alive

\* the end of a push round: the iteration over ws_clients is over and the
\* dead channels are removed
PruneStep == gloop.pc = "send" /\ gloop'.pc = "wait"

\* every channel whose send failed in the round is out of the registry
FailedPruned == \A c \in gloop.dead_clients : ~InList(ws_clients', c)

\* a channel whose send succeeded is not removed by the round
SucceededKept ==
  \A c \in gloop.sent : InList(ws_clients, c) => InList(ws_clients', c)

\* every channel registered from the start to the end of the round was sent
\* the snapshot (or its send failed)
AllTried ==
  \A c \in gloop.start :
    InList(ws_clients, c) => c \in gloop.sent \cup gloop.dead_clients

\* C13: at the end of a push round every channel whose send failed is out of
\* the registry, every channel whose send succeeded is still in it, and every
\* channel that was registered throughout the round was sent the snapshot,
\* whatever happened to the other channels.
C13_BroadcastRound ==
  [][PruneStep => FailedPruned /\ SucceededKept /\ AllTried]_vars

\* ws_topic is in its poll loop
InPollLoop(v) ==
  v.pc = "streaming" \/ (v.pc = "send" /\ v.out.type \in {"message", "warning"})

SpinStopped == spin.pc = "stopped"
PushLoopStopped == gloop.pc = "stopped"
PollLoopsStopped == \A s \in Sessions : ~InPollLoop(session[s])
ReceiveLoopsStopped == \A s \in Sessions : ~Receiving(session[s])
GraphConnectionsStopped == \A c \in Clients : client[c].pc # "open"

\* C14: once shutdown_event is set, the bus spin loop, the topology push
\* loop, every poll loop and receive loop of a streaming session and every
\* /ws/graph connection loop eventually terminate.
C14_ShutdownStopsAll ==
  shutdown_event ~> (/\ SpinStopped /\ PushLoopStopped /\ PollLoopsStopped
                     /\ ReceiveLoopsStopped /\ GraphConnectionsStopped)

\* the cache holds for the session's topic an entry it has not sent
Unsent(v) ==
  /\ v.topic_name \in DOMAIN latest_messages
  /\ ShouldSend(latest_messages[v.topic_name].timestamp, v.last_timestamp)

\* C15: the poll loop goes on while the receive thread waits for the viewer:
\* an entry not yet sent is handed to ws.send (or the loop is left) whatever
\* the viewer does. Once the viewer has sent 'close' (stop_streaming is set)
\* or has dropped the connection, which also makes a send fail, the poll loop
\* exits and ws_topic returns; it returns through its finally block only,
\* whose step is the call of unsubscribe_from_topic for the session's topic.
C15_StopLeadsToUnsubscribe ==
  /\ \A s \in Sessions :
       (session[s].pc = "streaming" /\ Unsent(session[s]))
         ~> (session[s].pc = "send" \/ ~InPollLoop(session[s]))
  /\ \A s \in Sessions :
       (InPollLoop(session[s])
        /\ (session[s].stop_streaming \/ ~session[s].alive))
         ~> Returned(session[s])
  /\ [][\A s \in Sessions :
         (Returned(session'[s]) /\ ~Returned(session[s]))
           => /\ session[s].pc = "finally"
              /\ \E closeOk \in BOOLEAN :
                   Manager' = UnsubscribeFromTopic(Manager,
                                session[s].topic_name, closeOk)]_vars

\* a session that streamed has returned, the service still running: its
\* receive thread has ended and the handle of its topic is closed
C15_Witness ==
  \E s \in Sessions :
    /\ Returned(session[s]) /\ session[s].subscribed
    /\ session[s].recv = "ended"
    /\ ~shutdown_event
    /\ session[s].topic_name \notin DOMAIN topic_subscriptions
    /\ Len(handles) = 1 /\ handles[1].state = "closed"

\* C16: when _message_to_dict raises for a message, the exception is caught
\* by ros2_spin: from the dispatch of the message to the catch the cache (the
\* entries of all topics), the subscription table, the handles and every
\* streaming session stay as they were, and the delivery thread is back at
\* the top of its loop, where the next message is dispatched.
C16_DecodeFailureIsolated ==
  [][(spin' # spin /\ (spin'.pc = "raised" \/ spin.pc = "raised"))
       => /\ latest_messages' = latest_messages
          /\ Manager' = Manager
          /\ session' = session
          /\ spin.pc = "raised"
               => spin' = [IdleSpin EXCEPT !.pc =
                             IF shutdown_event THEN "stopped" ELSE "idle"]]_vars

\* the decoding of a message of one topic raised while two sessions stream
\* two topics and the cache holds an entry of the other topic
C16_Witness ==
  /\ spin.pc = "raised"
  /\ \A s \in Sessions : session[s].pc = "streaming"
  /\ \E t \in DOMAIN latest_messages : t # spin.topic_name

\* the point cloud whose extraction has run, with a positive point_step
CloudExtracted ==
  /\ pc_data # NotExtracted
  /\ sensor_msg.kind = "pointcloud2"
  /\ sensor_msg.point_step > 0

\* C17: the num_points emitted for a point cloud is at most width * height
\* and at most floor(payload bytes / point_step); a payload shorter than
\* declared does not make the extraction fail: when the layout of the fields
\* fits the point and a row of the payload is finite, data is emitted, with
\* as many points as positions.
C17_ClippedToPayload ==
  CloudExtracted
    => LET m == sensor_msg
           declared == m.width * m.height
           actual == m.data_len \div m.point_step
       IN /\ pc_data.num_points <= declared
          /\ pc_data.num_points <= actual
          /\ pc_data.num_points = Len(pc_data.positions)
          /\ (actual < declared /\ m.fits /\ m.finite # {})
               => /\ pc_data.status = "data"
                  /\ pc_data.num_points >= 1
          /\ pc_data.status = "data" => pc_data.num_points >= 1

\* a cloud declared larger than its payload, whose payload is not a whole
\* number of points, was extracted with every point the payload holds
C17_Witness ==
  /\ CloudExtracted
  /\ pc_data.status = "data"
  /\ sensor_msg.width * sensor_msg.height
       > sensor_msg.data_len \div sensor_msg.point_step
  /\ sensor_msg.data_len % sensor_msg.point_step # 0
  /\ pc_data.num_points = sensor_msg.data_len \div sensor_msg.point_step

\* the valid points of the message, by row: the finite rows of the clipped
\* payload of a cloud, the valid ranges of a scan
ValidPoints ==
  IF sensor_msg.kind = "pointcloud2"
    THEN {i \in sensor_msg.finite :
            /\ i <= sensor_msg.width * sensor_msg.height
            /\ i <= Rows(sensor_msg.data_len, sensor_msg.point_step)}
    ELSE {i \in DOMAIN sensor_msg.ranges : sensor_msg.ranges[i] = "valid"}

\* C18: for clouds and scans, the emitted points are valid points of the
\* message, each emitted once and each with the colour computed for it;
\* with more valid points than max_points exactly max_points are emitted,
\* otherwise all of them; never more than max_points.
C18_DownsampleIsSubset ==
  pc_data.status = "data"
    => LET n == Cardinality(ValidPoints)
           out == 1..pc_data.num_points
       IN /\ pc_data.num_points = IF n > max_points THEN max_points ELSE n
          /\ pc_data.num_points <= max_points
          /\ Len(pc_data.positions) = pc_data.num_points
          /\ Len(pc_data.colors) = pc_data.num_points
          /\ \A k \in out :
               \E i \in ValidPoints : /\ pc_data.positions[k] = PositionOf(i)
                                       /\ pc_data.colors[k] = ColorOf(i)
          /\ \A k \in out, l \in out :
               k # l => pc_data.positions[k] # pc_data.positions[l]
          /\ n <= max_points
               => \A i \in ValidPoints :
                    \E k \in out : pc_data.positions[k] = PositionOf(i)

\* a scan with more valid ranges than max_points was downsampled, and the
\* first point emitted is not the first valid one
C18_Witness ==
  /\ pc_data.status = "data"
  /\ sensor_msg.kind = "laserscan"
  /\ Cardinality(ValidPoints) > max_points
  /\ pc_data.num_points = max_points /\ max_points > 1
  /\ \E i \in ValidPoints, j \in ValidPoints :
       i < j /\ pc_data.positions[1] = PositionOf(j)
             /\ pc_data.positions[2] = PositionOf(i)

\* a numeric sequence field has been converted
SequenceConverted ==
  /\ json_value # NotConverted
  /\ field_value.type \in NumericContainers
  /\ \A k \in DOMAIN field_value.items :
       field_value.items[k] \in FloatElements

\* the emitted element stands for the element of the sequence, as a number or
\* as the string form of one
SameElement(j, x) ==
  j.json \in {"number", "string"} /\ j.v = x.v /\ j.n = x.n

\* the conversion of the sequence is its first SEQUENCE_LIMIT elements and a
\* marker with the number of the others, or all of it when it is not longer
TruncatedWithMarker ==
  LET len == Len(field_value.items)
      out == json_value.items
  IN /\ json_value.json = "list"
     /\ IF len > SEQUENCE_LIMIT
          THEN /\ Len(out) = SEQUENCE_LIMIT + 1
               /\ \A k \in 1..SEQUENCE_LIMIT :
                    SameElement(out[k], field_value.items[k])
               /\ out[SEQUENCE_LIMIT + 1].json = "string"
               /\ out[SEQUENCE_LIMIT + 1].n = len - SEQUENCE_LIMIT
          ELSE /\ Len(out) = len
               /\ \A k \in 1..len : SameElement(out[k], field_value.items[k])

\* C19: a numeric sequence of more than 200 elements, in a list, a tuple, a
\* typed array or an ndarray, is emitted as its first 200 elements and one
\* marker with the number of the remaining ones; a sequence of at most 200
\* elements is emitted whole.
C19_LongSequencesTruncated ==
  SequenceConverted => TruncatedWithMarker

\* the JSON numbers of a tree
RECURSIVE NumbersOf(_)
NumbersOf(j) ==
  IF j.json = "number" THEN {j.v}
  ELSE IF j.json = "list"
    THEN UNION {NumbersOf(j.items[k]) : k \in DOMAIN j.items}
  ELSE IF j.json = "dict"
    THEN UNION {NumbersOf(j.items[k][2]) : k \in DOMAIN j.items}
  ELSE {}

\* C20: the tree emitted for a value holds no inf, -inf or nan as a number,
\* be the value a scalar field, an element of a sequence or a field of a
\* nested message.
C20_NoNonFiniteNumber ==
  json_value # NotConverted
    => \A v \in NumbersOf(json_value) : v \notin {"inf", "-inf", "nan"}

\* the step is made inside subscribe_to_topic by the session that holds the
\* lock, which releases it
OwnerLeaves(s) ==
  /\ session[s].pc = "sub_create"
  /\ session'[s].pc # "sub_create"
  /\ subscription_lock' = NoOwner

\* session s enters subscribe_to_topic or gets the latest message
EntersManager(s) ==
  \/ session[s].pc = "subscribe" /\ session'[s].pc # "subscribe"
  \/ session[s].pc = "streaming" /\ session'[s].pc = "send"
  \/ session[s].pc = "finally" /\ session'[s].pc = "done"

\* the callback decodes a message / writes the decoded message to the cache
DecodeStep == spin.pc = "idle" /\ spin'.pc \in {"decoded", "raised"}
CacheWriteStep == spin.pc = "decoded" /\ spin'.pc # "decoded"

\* C21: while a thread holds the manager lock, the table, the cache and the
\* bus handles are changed by that thread only and no other session enters
\* subscribe, unsubscribe or get-latest; the callback decodes without the
\* lock and without touching the cache, and takes the lock, when it is free,
\* only to store what it had decoded.
C21_SingleLock ==
  /\ [][subscription_lock # NoOwner =>
          /\ <<topic_subscriptions, latest_messages, handles>>'
                 # <<topic_subscriptions, latest_messages, handles>>
               => OwnerLeaves(subscription_lock)
          /\ \A s \in Sessions \ {subscription_lock} : ~EntersManager(s)
          /\ ~CacheWriteStep]_vars
  /\ [][DecodeStep => /\ subscription_lock' = subscription_lock
                      /\ latest_messages' = latest_messages
                      /\ topic_subscriptions' = topic_subscriptions]_vars
  /\ [][CacheWriteStep =>
          /\ subscription_lock = NoOwner /\ subscription_lock' = NoOwner
          /\ latest_messages'[spin.topic_name].data = spin.msg_dict
          /\ topic_subscriptions' = topic_subscriptions]_vars

\* a session is inside subscribe_to_topic with the lock while the callback
\* has decoded a message and waits for the lock, and the other session is
\* about to call the manager
C21_Witness ==
  \E s \in Sessions, o \in Sessions :
    /\ s # o
    /\ subscription_lock = s
    /\ spin.pc = "decoded"
    /\ session[o].pc \in {"subscribe", "streaming", "finally"}

\* every channel that is registered from the start of the round to after its
\* end was sent the snapshot
StayedAndSent ==
  \A c \in gloop.start :
    (InList(ws_clients, c) /\ InList(ws_clients', c)) => c \in gloop.sent

\* C22: the viewer registry is accessed under its own mutual exclusion: while
\* a broadcast iterates over it, no connecting or disconnecting viewer
\* changes it (only the prune of the broadcast does), and so the round sends
\* the snapshot to every viewer that stays registered throughout.
C22_RegistryExclusion ==
  [][gloop.pc = "send" =>
       /\ ws_clients' # ws_clients => PruneStep
       /\ PruneStep => StayedAndSent]_vars

\* a compressed image with a non-empty payload has been converted
ImageConverted == image_dict # NotDecoded /\ image_msg.data_len > 0

\* the compressed-depth policy handled the image: a re-encoded rendering or
\* a metadata-only error result
DepthPolicy ==
  \/ image_dict.msg_type = "image_metadata" /\ image_dict.error
  \/ image_dict.msg_type = "compressed_image" /\ image_dict.data = "reencoded"
       /\ image_dict.format = <<"jpeg">>

\* the original bytes are re-exposed with the given format
PassedThrough(mime_format) ==
  /\ image_dict.msg_type = "compressed_image"
  /\ image_dict.data = "original"
  /\ image_dict.format = <<mime_format>>
  /\ image_dict.original_format = image_msg.format

IsDepthLabel == Contains(image_msg.format, "compresseddepth")
IsJpegLabel ==
  Contains(image_msg.format, "jpeg") \/ Contains(image_msg.format, "jpg")
IsPngLabel == Contains(image_msg.format, "png")

\* C23: for a non-empty payload, a label that contains the compressed-depth
\* marker (in any case) is handled by the compressed-depth policy, also when
\* it contains png; otherwise a JPEG label is passed through as jpeg, a PNG
\* label as png and any other label as jpeg.
C23_SubFormatByLabel ==
  ImageConverted =>
    IF IsDepthLabel THEN DepthPolicy
    ELSE IF IsJpegLabel THEN PassedThrough("jpeg")
    ELSE IF IsPngLabel THEN PassedThrough("png")
    ELSE PassedThrough("jpeg")

\* C24: the full name built from a (namespace, name) pair reported by the
\* bus begins with the path separator and has no doubled separator.
C24_CanonicalFullName ==
  full_node_name # NotBuilt
    => full_node_name[1] = Separator /\ ~HasDoubled(full_node_name)

\* C25: whenever the manager lock is free, every topic with a cache entry
\* has a subscription in the table (so no session that subscribes later is
\* sent a message cached before its subscription).
C25_CacheWithinTable ==
  subscription_lock = NoOwner
    => DOMAIN latest_messages \subseteq DOMAIN topic_subscriptions

\* session s, which never got True from subscribe_to_topic, runs its finally
\* block and returns
EndsUnsubscribed(s) ==
  /\ session[s].pc = "finally" /\ session'[s].pc = "done"
  /\ ~session[s].subscribed

\* C26: a session that ends without having subscribed (topic not found, or
\* subscribe returned False) leaves the table and the cache as they are,
\* also when another session holds a subscription of the same topic name.
C26_FailedSessionLeavesTable ==
  [][\A s \in Sessions :
       EndsUnsubscribed(s) => /\ topic_subscriptions' = topic_subscriptions
                              /\ latest_messages' = latest_messages]_vars

\* the push round sends viewer c its snapshot
Pushed(c) ==
  /\ gloop.pc = "send"
  /\ c \in gloop'.sent \ gloop.sent

\* ... and it is the snapshot of the last graph_update c received
PushedAgain(c) == Pushed(c) /\ gloop.current_graph = client[c].snapshot

\* C27 as stated: the push loop sends a viewer the snapshot of the last
\* graph_update that viewer received only if the topology has changed since.
C27_NoRepeatedSnapshot ==
  [][\A c \in Clients : PushedAgain(c) => client[c].since = "changed"]_vars

\* C27: a viewer that received a snapshot from a push round is not sent an
\* equal snapshot by a later round unless the topology changed after it
\* received it or a reset ran after that round began; the snapshot sent on
\* connect can be pushed to the viewer once more.
C27_NoRepeatedPush ==
  [][\A c \in Clients : PushedAgain(c) => client[c].since # "push"]_vars

\* a viewer got the snapshot from a push round and then, with nothing
\* changed, the loop polled again and went to the wait
C27_Witness ==
  \E c \in Clients :
    /\ client[c].since = "push" /\ client[c].pc = "open" /\ client[c].alive
    /\ InList(ws_clients, c)
    /\ gloop.pc = "wait" /\ gloop.quiet
    /\ client[c].snapshot = graph_data

\* the handles after subscribe_to_topic ran with the publishers of this state
OpenedWith(pubs, fails) ==
  SubscribeBody(Manager, "/a", GoodType, pubs, fails, TRUE).m.handles

\* C28: the negotiated profile is volatile whatever the publishers, also
\* when all of them are transient-local, and the subscription that
\* subscribe_to_topic opens with it is volatile.
C28_AlwaysVolatile ==
  qos # NoQos
    => /\ qos.durability = VOLATILE
       /\ \A h \in DOMAIN OpenedWith(pub_info_list, query_fails) :
            OpenedWith(pub_info_list, query_fails)[h].durability = VOLATILE

\* every observed publisher is transient-local
C28_Witness ==
  /\ qos # NoQos /\ ~query_fails
  /\ Len(pub_info_list) >= 2
  /\ \A i \in DOMAIN pub_info_list :
       pub_info_list[i].durability = TRANSIENT_LOCAL
  /\ qos.durability = VOLATILE
  /\ OpenedWith(pub_info_list, query_fails) # <<>>

====
